---- MODULE Spec2Model ----
(***************************************************************************)
(* Challenge workflow of the fighter-matchmaking backend.                  *)
(*                                                                         *)
(* The Account Store (users) and the Challenge Store (challenges) are the  *)
(* two MongoDB collections.  Every HTTP handler of the challenge           *)
(* controller and the account controller is one action of Spec, which      *)
(* runs a request to completion before the next one starts.  SpecConc      *)
(* splits the handlers at the database round trips (load, then save), so   *)
(* that two requests interleave.                                           *)
(***************************************************************************)
EXTENDS Integers, Sequences, FiniteSets, TLC

VARIABLES
    users,       \* Account Store: account id -> account document
    challenges,  \* Challenge Store: sequence of challenge documents, id = index
    last,        \* the response of the request that completed last
    reqs,        \* SpecConc only: the requests in flight (loaded, not yet saved), a sequence
    clock        \* the current time, new Date(), in days

vars == <<users, challenges, last, reqs, clock>>

(***************************************************************************)
(* Bounds of the model.                                                    *)
(***************************************************************************)
MaxLog == 3          \* log entries over all challenges, i.e. successful saves
MaxInFlight == 2     \* SpecConc: requests in flight at once
MaxClock == 1        \* SpecDated: days that pass

UserIds == {"u1", "u2", "u3"}

(***************************************************************************)
(* Texts are sequences of tokens: the characters of the inputs, and the    *)
(* fixed phrases of the message templates as single non-blank tokens.      *)
(***************************************************************************)
\* the raw texts of the request bodies: the empty text, and " a  a "
RawTexts == {<<>>, <<" ", "a", " ", " ", "a", " ">>}

RECURSIVE TrimLeft(_)
TrimLeft(s) == IF s # <<>> /\ Head(s) = " " THEN TrimLeft(Tail(s)) ELSE s

RECURSIVE TrimRight(_)
TrimRight(s) ==
    IF s # <<>> /\ s[Len(s)] = " " THEN TrimRight(SubSeq(s, 1, Len(s) - 1)) ELSE s

\* String.prototype.trim, and the schema option trim: true
Trim(s) == TrimRight(TrimLeft(s))

\* .replace(/\s+/g, ' ')
RECURSIVE NormalizeWhitespace(_)
NormalizeWhitespace(s) ==
    IF Len(s) < 2 THEN s
    ELSE IF s[1] = " " /\ s[2] = " " THEN NormalizeWhitespace(Tail(s))
    ELSE <<s[1]>> \o NormalizeWhitespace(Tail(s))

\* sanitizeInput on one string of the request body
sanitizeInput(s) == NormalizeWhitespace(Trim(s))

\* sanitizeInput on a nested object of the body: every string in it.  The
\* text of a date holds no whitespace to remove; the model keeps its day.
sanitizeObject(d) ==
    [f \in DOMAIN d |->
        IF d[f] = <<>> \/ f = "proposedDate" THEN d[f] ELSE <<sanitizeInput(d[f][1])>>]

\* t occurs in s as a contiguous piece
Contains(s, t) ==
    \E i \in 1..(Len(s) + 1) :
        /\ i + Len(t) - 1 <= Len(s)
        /\ SubSeq(s, i, i + Len(t) - 1) = t

IsPrefix(s, t) == Len(s) <= Len(t) /\ SubSeq(t, 1, Len(s)) = s

(***************************************************************************)
(* Account Store.                                                          *)
(***************************************************************************)
\* userSchema defaults: role "fan", isFighter false, no challenge references
NewUser(username, email) ==
    [username |-> username, email |-> email, role |-> "fan",
     isFighter |-> FALSE, challenges |-> <<>>]

\* User.create gives the account a fresh ObjectId.  ObjectIds are opaque, so
\* the model fixes which unused id a given username receives.
PreferredId(username) ==
    CASE username = "n1" -> "u1"
      [] username = "n2" -> "u2"
      [] OTHER -> "u3"

FreshUserId(usrs, username) ==
    IF PreferredId(username) \notin DOMAIN usrs THEN PreferredId(username)
    ELSE CHOOSE u \in UserIds \ DOMAIN usrs : TRUE

SeqToSet(s) == {s[i] : i \in 1..Len(s)}

\* what an account request answers and the accounts it leaves
AccountPlan(http, code, error, usrs) ==
    [http |-> http, code |-> code, error |-> error, users |-> usrs]

\* no index on username and email
DuplicateKey_Unindexed(usrs, id, doc) == FALSE

\* unique: true on username and on email: the store refuses (E11000) to
\* write doc under id when another account holds its username or its email
DuplicateKey(usrs, id, doc) ==
    \E u \in DOMAIN usrs \ {id} :
        usrs[u].username = doc.username \/ usrs[u].email = doc.email

\* the write of an account, insert or update, as the store settles it: the
\* duplicate key error E11000 is thrown and nothing is written
WriteAccount(usrs, id, doc, http) ==
    IF DuplicateKey(usrs, id, doc)
    THEN AccountPlan(500, "E11000", <<"duplicate key">>, usrs)
    ELSE AccountPlan(http, "OK", <<>>,
                     [u \in DOMAIN usrs \cup {id} |-> IF u = id THEN doc ELSE usrs[u]])

\* signup: User.findOne({ $or: [{ username }, { email }] })
ExistingUser(usrs, username, email) ==
    \E u \in DOMAIN usrs : usrs[u].username = username \/ usrs[u].email = email

\* globalErrorHandler on what the handler threw.  The duplicate key error is
\* answered 409 DUPLICATE_ERROR by handleMongoError when NODE_ENV is not
\* development, and 500 with the driver's code 11000 when it is.
Answers(p) ==
    IF p.code = "E11000"
    THEN {[p EXCEPT !.http = 409, !.code = "DUPLICATE_ERROR", !.error = <<"already exists">>],
          [p EXCEPT !.http = 500, !.code = "11000"]}
    ELSE {p}

signup(usrs, username, email) ==
    IF ExistingUser(usrs, username, email)
    THEN AccountPlan(409, "DUPLICATE_USER", <<"already exists">>, usrs)
    ELSE WriteAccount(usrs, FreshUserId(usrs, username), NewUser(username, email), 201)

(***************************************************************************)
(* Challenge documents.                                                    *)
(***************************************************************************)
NoSender == "null"

ActiveStatuses == {"pending", "accepted"}

\* isActive virtual
isActive(doc) == doc.status \in ActiveStatuses

\* Fight details, stored or supplied: every field is <<>> (absent) or <<text>>.
\* proposedDate is <<>> or <<day>>.
NoDetails == [proposedDate |-> <<>>, location |-> <<>>, rules |-> <<>>]

\* variant: the supplied object replaces the stored one
Spread_Replace(a, b) == b

\* JS object spread { ...a, ...b }: a field present in b takes b's value
Spread(a, b) == [f \in DOMAIN a |-> IF b[f] # <<>> THEN b[f] ELSE a[f]]

\* the cast of fight details assigned to the document (location, rules: trim)
CastDetails(d) ==
    [f \in DOMAIN d |->
        IF d[f] = <<>> \/ f = "proposedDate" THEN d[f] ELSE <<Trim(d[f][1])>>]

\* the subdocument cast of an element pushed on messages (message: trim)
CastMessage(m) == [m EXCEPT !.message = Trim(@)]

\* variant: the two participants stored the wrong way round
NewChallenge_Swapped(challenger, challenged, fightDetails, msgs) ==
    [challenger |-> challenged, challenged |-> challenger, status |-> "pending",
     fightDetails |-> CastDetails(fightDetails),
     messages |-> [i \in 1..Len(msgs) |-> CastMessage(msgs[i])],
     responseDetails |-> [respondedAt |-> <<>>, responseMessage |-> <<>>],
     relatedFight |-> <<>>]

\* A new document as Challenge.create builds it: status defaults to pending,
\* no response details, no related fight.
NewChallenge(challenger, challenged, fightDetails, msgs) ==
    [challenger |-> challenger, challenged |-> challenged, status |-> "pending",
     fightDetails |-> CastDetails(fightDetails),
     messages |-> [i \in 1..Len(msgs) |-> CastMessage(msgs[i])],
     responseDetails |-> [respondedAt |-> <<>>, responseMessage |-> <<>>],
     relatedFight |-> <<>>]

\* variant: the schema without the self-challenge hook
SelfChallengeHook_Absent(doc) == FALSE

\* pre('save') hook: a fighter cannot challenge themselves
SelfChallengeHook(doc) == doc.challenger = doc.challenged

\* no path of a log entry is required
ValidMessages_NothingRequired(doc) == TRUE

\* Schema validation run by save(): sender and message are required in every
\* log entry (an empty string does not satisfy required on a String path).
ValidMessages(doc) ==
    \A i \in 1..Len(doc.messages) :
        /\ doc.messages[i].sender # NoSender
        /\ doc.messages[i].message # <<>>

\* the validations of save() that look at nothing but the log
Validation_LogOnly(doc) == ValidMessages(doc)

\* the validator of fightDetails.proposedDate: !date || date > new Date()
FutureDate(doc) ==
    doc.fightDetails.proposedDate = <<>> \/ doc.fightDetails.proposedDate[1] > clock

\* Schema validation run by save().  It runs the validators of every path
\* the document holds, those loaded from the store included, not only of
\* the paths the request modified.
Validation(doc) == ValidMessages(doc) /\ FutureDate(doc)

\* save() rejects the document: validation, then the pre-save hooks
SaveRejects(doc) == ~Validation(doc) \/ SelfChallengeHook(doc)

\* variant: the hook pushes the id on every save
AddRef_Always(usrs, u, cid) ==
    IF u \in DOMAIN usrs
    THEN [usrs EXCEPT ![u].challenges = Append(@, cid)]
    ELSE usrs

\* post('save') hook: add the challenge id to both participants' lists unless
\* it is already there (a missing account matches no document)
AddRef(usrs, u, cid) ==
    IF u \in DOMAIN usrs /\ cid \notin SeqToSet(usrs[u].challenges)
    THEN [usrs EXCEPT ![u].challenges = Append(@, cid)]
    ELSE usrs

PostSave(usrs, doc, cid) == AddRef(AddRef(usrs, doc.challenger, cid), doc.challenged, cid)

\* What save() of a loaded document writes: the paths that were modified
\* since the load are $set, the pushed log entries are $push-ed.
DeltaOf(loaded, doc) ==
    [set |-> {f \in {"status", "fightDetails", "responseDetails", "relatedFight"} :
                 doc[f] # loaded[f]},
     doc |-> doc,
     push |-> SubSeq(doc.messages, Len(loaded.messages) + 1, Len(doc.messages))]

\* variant: save() sets the log to the entries pushed since the load
ApplyDelta_SetLog(stored, delta) ==
    [f \in DOMAIN stored |->
        IF f = "messages" THEN delta.push
        ELSE IF f \in delta.set THEN delta.doc[f]
        ELSE stored[f]]

\* variant: save() writes the whole document as the request holds it
ApplyDelta_WholeDocument(stored, delta) == delta.doc

\* variant: the update finds no document once the stored status is terminal
ApplyDelta_TerminalStable(stored, delta) ==
    IF stored.status \notin ActiveStatuses THEN stored
    ELSE [f \in DOMAIN stored |->
             IF f = "messages" THEN stored.messages \o delta.push
             ELSE IF f \in delta.set THEN delta.doc[f]
             ELSE stored[f]]

ApplyDelta(stored, delta) ==
    [f \in DOMAIN stored |->
        IF f = "messages" THEN stored.messages \o delta.push
        ELSE IF f \in delta.set THEN delta.doc[f]
        ELSE stored[f]]

(***************************************************************************)
(* Instance methods of the challenge model.  Each mutates the loaded       *)
(* document in memory and then calls save(); a method that throws leaves   *)
(* the document as loaded.                                                 *)
(***************************************************************************)
Now == "now"   \* new Date()

Thrown(doc, error) == [threw |-> TRUE, error |-> error, doc |-> doc]
Mutated(doc) == [threw |-> FALSE, error |-> <<>>, doc |-> doc]

Push(doc, sender, text, isSystemMessage) ==
    [doc EXCEPT !.messages =
        Append(@, CastMessage([sender |-> sender, message |-> text,
                               isSystemMessage |-> isSystemMessage]))]

addMessage(doc, senderId, messageText, isSystemMessage) ==
    Mutated(Push(doc, senderId, messageText, isSystemMessage))

\* variant: accept without the status guard
accept_AnyStatus(doc, responseMessage) ==
    Mutated(Push(
        [doc EXCEPT !.status = "accepted",
                    !.responseDetails = [respondedAt |-> <<Now>>,
                                         responseMessage |-> Trim(responseMessage)]],
        doc.challenged,
        Trim(<<"Challenge accepted!", " ">> \o responseMessage),
        TRUE))

accept(doc, responseMessage) ==
    IF doc.status # "pending"
    THEN Thrown(doc, <<"Challenge cannot be accepted - current status: ", doc.status>>)
    ELSE Mutated(Push(
            [doc EXCEPT !.status = "accepted",
                        !.responseDetails = [respondedAt |-> <<Now>>,
                                             responseMessage |-> Trim(responseMessage)]],
            doc.challenged,
            Trim(<<"Challenge accepted!", " ">> \o responseMessage),
            TRUE))

\* variant: decline whose system message leaves the response message out
decline_NoResponseText(doc, responseMessage) ==
    IF doc.status # "pending"
    THEN Thrown(doc, <<"Challenge cannot be declined - current status: ", doc.status>>)
    ELSE Mutated(Push(
            [doc EXCEPT !.status = "declined",
                        !.responseDetails = [respondedAt |-> <<Now>>,
                                             responseMessage |-> Trim(responseMessage)]],
            doc.challenged,
            <<"Challenge declined.">>,
            TRUE))

decline(doc, responseMessage) ==
    IF doc.status # "pending"
    THEN Thrown(doc, <<"Challenge cannot be declined - current status: ", doc.status>>)
    ELSE Mutated(Push(
            [doc EXCEPT !.status = "declined",
                        !.responseDetails = [respondedAt |-> <<Now>>,
                                             responseMessage |-> Trim(responseMessage)]],
            doc.challenged,
            Trim(<<"Challenge declined.", " ">> \o responseMessage),
            TRUE))

\* variant: cancel stamps the response details like accept and decline
cancel_Stamped(doc, reason) ==
    IF doc.status \notin {"pending", "accepted"}
    THEN Thrown(doc, <<"Challenge cannot be cancelled - current status: ", doc.status>>)
    ELSE Mutated(Push([doc EXCEPT !.status = "cancelled",
                                  !.responseDetails = [respondedAt |-> <<Now>>,
                                                       responseMessage |-> Trim(reason)]],
                      doc.challenger,
                      Trim(<<"Challenge cancelled.", " ">> \o reason),
                      TRUE))

\* variant: cancel of pending challenges only
cancel_PendingOnly(doc, reason) ==
    IF doc.status # "pending"
    THEN Thrown(doc, <<"Challenge cannot be cancelled - current status: ", doc.status>>)
    ELSE Mutated(Push([doc EXCEPT !.status = "cancelled"],
                      doc.challenger,
                      Trim(<<"Challenge cancelled.", " ">> \o reason),
                      TRUE))

\* variant: cancel without the status guard
cancel_AnyStatus(doc, reason) ==
    Mutated(Push([doc EXCEPT !.status = "cancelled"],
                 doc.challenger,
                 Trim(<<"Challenge cancelled.", " ">> \o reason),
                 TRUE))

cancel(doc, reason) ==
    IF doc.status \notin {"pending", "accepted"}
    THEN Thrown(doc, <<"Challenge cannot be cancelled - current status: ", doc.status>>)
    ELSE Mutated(Push([doc EXCEPT !.status = "cancelled"],
                      doc.challenger,
                      Trim(<<"Challenge cancelled.", " ">> \o reason),
                      TRUE))

\* fightId is <<>> (null) or <<id>>
complete(doc, fightId) ==
    IF doc.status # "accepted"
    THEN Thrown(doc, <<"Challenge cannot be completed - must be accepted first">>)
    ELSE Mutated(Push(
            [doc EXCEPT !.status = "completed",
                        !.relatedFight = IF fightId # <<>> THEN fightId ELSE @],
            NoSender,
            <<"Challenge completed - fight has taken place!">>,
            TRUE))

\* variant: the existence query in one direction only
existsBetweenUsers_OneWay(chs, user1Id, user2Id) ==
    \E i \in 1..Len(chs) :
        /\ chs[i].challenger = user1Id /\ chs[i].challenged = user2Id
        /\ chs[i].status \in {"pending", "accepted"}

\* variant: the existence query without the status filter
existsBetweenUsers_AnyStatus(chs, user1Id, user2Id) ==
    \E i \in 1..Len(chs) :
        \/ chs[i].challenger = user1Id /\ chs[i].challenged = user2Id
        \/ chs[i].challenger = user2Id /\ chs[i].challenged = user1Id

\* existsBetweenUsers: an active challenge between the two, in either order
existsBetweenUsers(chs, user1Id, user2Id) ==
    \E i \in 1..Len(chs) :
        /\ \/ chs[i].challenger = user1Id /\ chs[i].challenged = user2Id
           \/ chs[i].challenger = user2Id /\ chs[i].challenged = user1Id
        /\ chs[i].status \in {"pending", "accepted"}

(***************************************************************************)
(* Request handlers.  A handler's plan is what it decides from the data it *)
(* loaded: the response, and the write it sends to the store (if any).     *)
(***************************************************************************)
\* Challenge.findById: <<>> when no such document
findById(chs, cid) == IF cid \in 1..Len(chs) THEN <<chs[cid]>> ELSE <<>>

NoWrite == <<>>
Fail(http, code, error) ==
    [http |-> http, code |-> code, error |-> error, write |-> NoWrite]
Insert(doc) == [kind |-> "insert", cid |-> 0, loaded |-> doc, doc |-> doc]
Update(cid, loaded, doc) == [kind |-> "update", cid |-> cid, loaded |-> loaded, doc |-> doc]
Succeed(http, write) ==
    [http |-> http, code |-> "OK", error |-> <<>>, write |-> <<write>>]

\* A request's challengedId is the text of an ObjectId: 24 hex digits whose
\* letters may be written in either case.  The caller id of the token is the
\* canonical lower-case text.
IdTexts == [oid : UserIds, upper : BOOLEAN]
\* variant: === between an ObjectId and a text, which never holds
StrictEquals_ObjectIdToText(callerId, idText) == FALSE

\* challengerId === challengedId compares the two texts
StrictEquals(callerId, idText) == idText.oid = callerId /\ ~idText.upper
\* the cast of an id text to an ObjectId ignores the case of the letters
CastObjectId(idText) == idText.oid

\* An error that save() raises in createChallenge reaches the global error
\* handler, which answers 500 (code INTERNAL_ERROR in a development build).
\* variant: the challenged account is looked up but its isFighter is not checked
createChallenge_AnyTarget(chs, usrs, challengerId, challengedId, fightDetails, message) ==
    LET target == CastObjectId(challengedId)
        doc == NewChallenge(challengerId, target, fightDetails,
                   <<[sender |-> challengerId, message |-> message,
                      isSystemMessage |-> FALSE]>>)
    IN  IF challengerId \notin DOMAIN usrs \/ ~usrs[challengerId].isFighter
        THEN Fail(403, "NOT_FIGHTER", <<"Only fighters can create challenges">>)
        ELSE IF target \notin DOMAIN usrs
        THEN Fail(404, "FIGHTER_NOT_FOUND", <<"Challenged fighter not found">>)
        ELSE IF StrictEquals(challengerId, challengedId)
        THEN Fail(400, "SELF_CHALLENGE", <<"You cannot challenge yourself">>)
        ELSE IF existsBetweenUsers(chs, challengerId, target)
        THEN Fail(409, "CHALLENGE_EXISTS",
                  <<"An active challenge already exists between you and this fighter">>)
        ELSE IF ~Validation(doc)
        THEN Fail(500, "INTERNAL_ERROR", <<"ValidationError">>)
        ELSE IF SelfChallengeHook(doc)
        THEN Fail(500, "INTERNAL_ERROR", <<"A fighter cannot challenge themselves">>)
        ELSE Succeed(201, Insert(doc))

createChallenge(chs, usrs, challengerId, challengedId, fightDetails, message) ==
    LET target == CastObjectId(challengedId)
        doc == NewChallenge(challengerId, target, fightDetails,
                   <<[sender |-> challengerId, message |-> message,
                      isSystemMessage |-> FALSE]>>)
    IN  IF challengerId \notin DOMAIN usrs \/ ~usrs[challengerId].isFighter
        THEN Fail(403, "NOT_FIGHTER", <<"Only fighters can create challenges">>)
        ELSE IF target \notin DOMAIN usrs
        THEN Fail(404, "FIGHTER_NOT_FOUND", <<"Challenged fighter not found">>)
        ELSE IF ~usrs[target].isFighter
        THEN Fail(400, "TARGET_NOT_FIGHTER", <<"You can only challenge fighters">>)
        ELSE IF StrictEquals(challengerId, challengedId)
        THEN Fail(400, "SELF_CHALLENGE", <<"You cannot challenge yourself">>)
        ELSE IF existsBetweenUsers(chs, challengerId, target)
        THEN Fail(409, "CHALLENGE_EXISTS",
                  <<"An active challenge already exists between you and this fighter">>)
        ELSE IF ~Validation(doc)
        THEN Fail(500, "INTERNAL_ERROR", <<"ValidationError">>)
        ELSE IF SelfChallengeHook(doc)
        THEN Fail(500, "INTERNAL_ERROR", <<"A fighter cannot challenge themselves">>)
        ELSE Succeed(201, Insert(doc))

\* accept, decline and cancel share one shape: load, actor check, model
\* method and save inside try/catch
Respond(cid, loaded, authorized, denied, m) ==
    IF loaded = <<>>
    THEN Fail(404, "CHALLENGE_NOT_FOUND", <<"Challenge not found">>)
    ELSE IF ~authorized
    THEN Fail(403, "NOT_AUTHORIZED", denied)
    ELSE IF m.threw
    THEN Fail(400, "CHALLENGE_ACTION_ERROR", m.error)
    ELSE IF SaveRejects(m.doc)
    THEN Fail(400, "CHALLENGE_ACTION_ERROR", <<"ValidationError">>)
    ELSE Succeed(200, Update(cid, loaded[1], m.doc))

acceptChallenge(loaded, userId, cid, responseMessage) ==
    Respond(cid, loaded,
            loaded # <<>> /\ loaded[1].challenged = userId,
            <<"You can only accept challenges sent to you">>,
            IF loaded = <<>> THEN Thrown(<<>>, <<>>) ELSE accept(loaded[1], responseMessage))

\* variant: decline open to either participant
declineChallenge_AnyParticipant(loaded, userId, cid, responseMessage) ==
    Respond(cid, loaded,
            loaded # <<>> /\ userId \in {loaded[1].challenger, loaded[1].challenged},
            <<"You can only decline challenges sent to you">>,
            IF loaded = <<>> THEN Thrown(<<>>, <<>>) ELSE decline(loaded[1], responseMessage))

declineChallenge(loaded, userId, cid, responseMessage) ==
    Respond(cid, loaded,
            loaded # <<>> /\ loaded[1].challenged = userId,
            <<"You can only decline challenges sent to you">>,
            IF loaded = <<>> THEN Thrown(<<>>, <<>>) ELSE decline(loaded[1], responseMessage))

cancelChallenge(loaded, userId, cid, reason) ==
    Respond(cid, loaded,
            loaded # <<>> /\ loaded[1].challenger = userId,
            <<"You can only cancel challenges you created">>,
            IF loaded = <<>> THEN Thrown(<<>>, <<>>) ELSE cancel(loaded[1], reason))

\* variant: no participant check
isParticipant_Anyone(doc, userId) == TRUE

isParticipant(doc, userId) == doc.challenger = userId \/ doc.challenged = userId

updateChallengeDetails(usrs, loaded, userId, cid, fightDetails) ==
    IF loaded = <<>>
    THEN Fail(404, "CHALLENGE_NOT_FOUND", <<"Challenge not found">>)
    ELSE IF ~isParticipant(loaded[1], userId)
    THEN Fail(403, "NOT_AUTHORIZED", <<"You can only update challenges you are part of">>)
    ELSE IF loaded[1].status \notin {"pending", "accepted"}
    THEN Fail(400, "INVALID_STATUS",
              <<"Challenge details can only be updated for pending or accepted challenges">>)
    ELSE LET updaterName == IF loaded[1].challenger = userId
                            THEN usrs[loaded[1].challenger].username
                            ELSE usrs[loaded[1].challenged].username
             doc == Push([loaded[1] EXCEPT !.fightDetails =
                                              CastDetails(Spread(@, fightDetails))],
                         userId, <<updaterName, " updated the fight details">>, TRUE)
         IN  IF SaveRejects(doc)
             THEN Fail(500, "INTERNAL_ERROR", <<"ValidationError">>)
             ELSE Succeed(200, Update(cid, loaded[1], doc))

\* variant: the message is pushed and saved before the status is checked
addMessageToChallenge_SaveFirst(loaded, userId, cid, message) ==
    IF loaded = <<>>
    THEN Fail(404, "CHALLENGE_NOT_FOUND", <<"Challenge not found">>)
    ELSE IF ~isParticipant(loaded[1], userId)
    THEN Fail(403, "NOT_AUTHORIZED",
              <<"You can only send messages in challenges you are part of">>)
    ELSE LET m == addMessage(loaded[1], userId, message, FALSE)
         IN  IF SaveRejects(m.doc)
             THEN Fail(500, "INTERNAL_ERROR", <<"ValidationError">>)
             ELSE IF loaded[1].status \notin {"pending", "accepted"}
             THEN [http |-> 400, code |-> "INVALID_STATUS",
                   error |-> <<"Messages can only be sent in pending or accepted challenges">>,
                   write |-> <<Update(cid, loaded[1], m.doc)>>]
             ELSE Succeed(201, Update(cid, loaded[1], m.doc))

\* variant: the status is checked before the caller
addMessageToChallenge_StatusFirst(loaded, userId, cid, message) ==
    IF loaded = <<>>
    THEN Fail(404, "CHALLENGE_NOT_FOUND", <<"Challenge not found">>)
    ELSE IF loaded[1].status \notin {"pending", "accepted"}
    THEN Fail(400, "INVALID_STATUS",
              <<"Messages can only be sent in pending or accepted challenges">>)
    ELSE IF ~isParticipant(loaded[1], userId)
    THEN Fail(403, "NOT_AUTHORIZED",
              <<"You can only send messages in challenges you are part of">>)
    ELSE LET m == addMessage(loaded[1], userId, message, FALSE)
         IN  IF SaveRejects(m.doc)
             THEN Fail(500, "INTERNAL_ERROR", <<"ValidationError">>)
             ELSE Succeed(201, Update(cid, loaded[1], m.doc))

addMessageToChallenge(loaded, userId, cid, message) ==
    IF loaded = <<>>
    THEN Fail(404, "CHALLENGE_NOT_FOUND", <<"Challenge not found">>)
    ELSE IF ~isParticipant(loaded[1], userId)
    THEN Fail(403, "NOT_AUTHORIZED",
              <<"You can only send messages in challenges you are part of">>)
    ELSE IF loaded[1].status \notin {"pending", "accepted"}
    THEN Fail(400, "INVALID_STATUS",
              <<"Messages can only be sent in pending or accepted challenges">>)
    ELSE LET m == addMessage(loaded[1], userId, message, FALSE)
         IN  IF SaveRejects(m.doc)
             THEN Fail(500, "INTERNAL_ERROR", <<"ValidationError">>)
             ELSE Succeed(201, Update(cid, loaded[1], m.doc))

getChallengeById(loaded, userId) ==
    IF loaded = <<>>
    THEN Fail(404, "CHALLENGE_NOT_FOUND", <<"Challenge not found">>)
    ELSE IF ~isParticipant(loaded[1], userId)
    THEN Fail(403, "NOT_AUTHORIZED", <<"You can only view challenges you are part of">>)
    ELSE [http |-> 200, code |-> "OK", error |-> <<>>, write |-> NoWrite]

\* the ids of a set of challenges in the order of their creation
RECURSIVE Ascending(_)
Ascending(S) ==
    IF S = {} THEN <<>>
    ELSE LET first == CHOOSE c \in S : \A other \in S : c <= other
         IN  <<first>> \o Ascending(S \ {first})

Reverse(s) == [i \in 1..Len(s) |-> s[Len(s) + 1 - i]]

\* variant: the role filter is ignored
RoleQuery_Either(doc, userId, role) == doc.challenger = userId \/ doc.challenged = userId

\* the query getMyChallenges builds from the role filter (<<>>: no filter)
RoleQuery(doc, userId, role) ==
    IF role = <<"challenger">> THEN doc.challenger = userId
    ELSE IF role = <<"challenged">> THEN doc.challenged = userId
    ELSE doc.challenger = userId \/ doc.challenged = userId

\* .sort(sort): by creation time, oldest or newest first
Sort(S, sort) == IF sort = "-createdAt" THEN Reverse(Ascending(S)) ELSE Ascending(S)

\* .skip(skip).limit(limitNum)
Page(s, skip, limitNum) ==
    SubSeq(s, skip + 1, IF skip + limitNum < Len(s) THEN skip + limitNum ELSE Len(s))

\* getMyChallenges: the page of the matching challenges (by id) and their count
getMyChallenges(chs, userId, status, role, page, limit, sort) ==
    LET found == {c \in 1..Len(chs) :
                     /\ RoleQuery(chs[c], userId, role)
                     /\ status # <<>> => chs[c].status = status[1]}
        skip == (page - 1) * limit
    IN  [challenges |-> Page(Sort(found, sort), skip, limit),
         total |-> Cardinality(found)]

\* getPendingChallengesForUser: challenged is the user, status pending,
\* newest first
getPendingChallengesForUser(chs, userId) ==
    Reverse(Ascending({c \in 1..Len(chs) :
                          chs[c].challenged = userId /\ chs[c].status = "pending"}))

\* The commented-out completeChallenge handler: no actor check, and no
\* try/catch around the model method (its errors reach the global handler).
completeChallenge(loaded, cid, fightId) ==
    IF loaded = <<>>
    THEN Fail(404, "CHALLENGE_NOT_FOUND", <<"Challenge not found">>)
    ELSE LET m == complete(loaded[1], fightId)
         IN  IF m.threw THEN Fail(500, "INTERNAL_ERROR", m.error)
             ELSE IF SaveRejects(m.doc)
             THEN Fail(500, "INTERNAL_ERROR", <<"ValidationError">>)
             ELSE Succeed(200, Update(cid, loaded[1], m.doc))

\* variant: the insert refused when the pair has an active challenge stored
Create_UniquePair(chs, doc) ==
    IF existsBetweenUsers(chs, doc.challenger, doc.challenged) THEN chs
    ELSE Append(chs, doc)

\* Challenge.create: the collection has no unique index, the document is
\* inserted whatever else is stored
Create(chs, doc) == Append(chs, doc)

\* The store after a write arrives: an insert appends the document, an
\* update applies the delta to the document as stored now; the post-save
\* hook then syncs the participants' reference lists.
Commit(chs, usrs, w) ==
    IF w.kind = "insert"
    THEN [challenges |-> Create(chs, w.doc),
          users |-> PostSave(usrs, w.doc, Len(chs) + 1)]
    ELSE [challenges |-> [chs EXCEPT ![w.cid] = ApplyDelta(@, DeltaOf(w.loaded, w.doc))],
          users |-> PostSave(usrs, w.doc, w.cid)]

\* the two stores after a handler's plan has run
After(chs, usrs, plan) ==
    IF plan.write = NoWrite THEN [challenges |-> chs, users |-> usrs]
    ELSE Commit(chs, usrs, plan.write[1])

(***************************************************************************)
(* Spec: one request at a time.  Every action is a whole request: the      *)
(* sanitizeInput middleware on the raw body, the handler, the save and the *)
(* post-save hook.                                                         *)
(***************************************************************************)
NoResponse == [op |-> "none", http |-> 0, code |-> "", error |-> <<>>, data |-> <<>>]

\* data: the challenges (by id) a listing returns, empty for the other requests
Response(op, plan) ==
    [op |-> op, http |-> plan.http, code |-> plan.code, error |-> plan.error,
     data |-> <<>>]

\* every successful save of a challenge appends one log entry, so the number
\* of log entries is the number of saves so far
RECURSIVE TotalLog(_)
TotalLog(chs) ==
    IF chs = <<>> THEN 0 ELSE Len(Head(chs).messages) + TotalLog(Tail(chs))

\* the model's cap: no save once MaxLog entries are stored
WithinBounds(chs, plan) == plan.write # NoWrite => TotalLog(chs) < MaxLog

Serve(op, plan) ==
    \E p \in {plan} :
        /\ WithinBounds(challenges, p)
        /\ last' = Response(op, p)
        /\ \E c \in {After(challenges, users, p)} :
               challenges' = c.challenges /\ users' = c.users
        /\ UNCHANGED <<reqs, clock>>

Init ==
    /\ users = <<>>
    /\ challenges = <<>>
    /\ last = NoResponse
    /\ reqs = <<>>
    /\ clock = 0

AccountResponse(op, http, code, error) ==
    [op |-> op, http |-> http, code |-> code, error |-> error, data |-> <<>>]

Signup(username, email) ==
    /\ ExistingUser(users, username, email) \/ DOMAIN users # UserIds
    /\ \E p \in Answers(signup(users, username, email)) :
           /\ last' = AccountResponse("signup", p.http, p.code, p.error)
           /\ users' = p.users
    /\ UNCHANGED <<challenges, reqs, clock>>

\* the promotion without the check of user.isFighter
StepIntoTheCage_Unchecked(userId) ==
    /\ IF userId \notin DOMAIN users
       THEN /\ last' = Response("becomeFighter",
                   Fail(404, "USER_NOT_FOUND", <<"User not found">>))
            /\ UNCHANGED users
       ELSE /\ last' = Response("becomeFighter", Succeed(200, NoWrite))
            /\ users' = [users EXCEPT ![userId].isFighter = TRUE,
                                      ![userId].role = "fighter"]
    /\ UNCHANGED <<challenges, reqs, clock>>

StepIntoTheCage(userId) ==
    /\ IF userId \notin DOMAIN users
       THEN /\ last' = Response("becomeFighter",
                   Fail(404, "USER_NOT_FOUND", <<"User not found">>))
            /\ UNCHANGED users
       ELSE IF users[userId].isFighter
       THEN /\ last' = Response("becomeFighter",
                   Fail(400, "ALREADY_FIGHTER", <<"You are already a fighter!">>))
            /\ UNCHANGED users
       ELSE /\ last' = Response("becomeFighter", Succeed(200, NoWrite))
            /\ users' = [users EXCEPT ![userId].isFighter = TRUE,
                                      ![userId].role = "fighter"]
    /\ UNCHANGED <<challenges, reqs, clock>>

CreateChallenge(userId, challengedId, fightDetails, message) ==
    Serve("create",
          createChallenge(challenges, users, userId, challengedId,
                          sanitizeObject(fightDetails), sanitizeInput(message)))

AcceptChallenge(userId, cid, message) ==
    Serve("accept",
          acceptChallenge(findById(challenges, cid), userId, cid,
                          sanitizeInput(message)))

DeclineChallenge(userId, cid, message) ==
    Serve("decline",
          declineChallenge(findById(challenges, cid), userId, cid,
                           sanitizeInput(message)))

CancelChallenge(userId, cid, reason) ==
    Serve("cancel",
          cancelChallenge(findById(challenges, cid), userId, cid,
                          sanitizeInput(reason)))

UpdateChallengeDetails(userId, cid, fightDetails) ==
    Serve("updateDetails",
          updateChallengeDetails(users, findById(challenges, cid), userId, cid,
                                 sanitizeObject(fightDetails)))

AddMessageToChallenge(userId, cid, message) ==
    Serve("addMessage",
          addMessageToChallenge(findById(challenges, cid), userId, cid,
                                sanitizeInput(message)))

GetChallengeById(userId, cid) ==
    Serve("fetch", getChallengeById(findById(challenges, cid), userId))

CompleteChallenge(cid, fightId) ==
    Serve("complete", completeChallenge(findById(challenges, cid), cid, fightId))

\* the ids of the stored challenges
StoredIds == 1..Len(challenges)

\* the inputs the requests are drawn from
Credentials == {<<"n1", "e1">>, <<"n2", "e2">>, <<"n3", "e3">>}
\* the ids of the stored challenges and one id that is not stored
ChallengeIds == 1..(Len(challenges) + 1)
CreateDetails == {NoDetails}
\* an update of the location only (" x") and one of the rules only ("y ")
LocationOnly == [NoDetails EXCEPT !.location = << <<" ", "x">> >>]
RulesOnly == [NoDetails EXCEPT !.rules = << <<"y", " ">> >>]
UpdateDetails == {LocationOnly, RulesOnly}
FightIds == {<<>>, <<"f1">>}
\* the accounts that ask to become fighters; u3 stays a fan or signs up never
Promotable == {"u1", "u2"}

Next ==
    \/ \E c \in Credentials : Signup(c[1], c[2])
    \/ \E u \in Promotable : StepIntoTheCage(u)
    \/ \E u \in UserIds, t \in IdTexts, d \in CreateDetails, m \in RawTexts :
          CreateChallenge(u, t, d, m)
    \/ \E u \in UserIds, c \in ChallengeIds, m \in RawTexts : AcceptChallenge(u, c, m)
    \/ \E u \in UserIds, c \in ChallengeIds, m \in RawTexts : DeclineChallenge(u, c, m)
    \/ \E u \in UserIds, c \in ChallengeIds, m \in RawTexts : CancelChallenge(u, c, m)
    \/ \E u \in UserIds, c \in ChallengeIds : UpdateChallengeDetails(u, c, LocationOnly)
    \/ \E u \in UserIds, c \in ChallengeIds, m \in RawTexts :
          AddMessageToChallenge(u, c, m)
    \/ \E u \in UserIds, c \in ChallengeIds : GetChallengeById(u, c)
    \/ \E c \in ChallengeIds, f \in FightIds : CompleteChallenge(c, f)

Spec == Init /\ [][Next]_vars

(***************************************************************************)
(* SpecConc: requests interleave.  A handler awaits the database twice:    *)
(* it loads (and checks) first, and saves later.  Between the two, other   *)
(* requests load and save.  A request that fails its checks answers at     *)
(* once; one that passes them is in flight until its save arrives.         *)
(***************************************************************************)
Fighter(username, email) ==
    [NewUser(username, email) EXCEPT !.isFighter = TRUE, !.role = "fighter"]

\* two fighters have signed up and stepped into the cage
InitConc ==
    /\ users = [u \in {"u1", "u2"} |->
                   IF u = "u1" THEN Fighter("n1", "e1") ELSE Fighter("n2", "e2")]
    /\ challenges = <<>>
    /\ last = NoResponse
    /\ reqs = <<>>
    /\ clock = 0

InFlight(op, plan) == [op |-> op, plan |-> plan]

Remove(s, i) == SubSeq(s, 1, i - 1) \o SubSeq(s, i + 1, Len(s))

\* the handler up to its save: the checks on what it loaded
Load(op, plan) ==
    \E p \in {plan} :
        /\ IF p.write = NoWrite
           THEN /\ last' = Response(op, p)
                /\ reqs' = reqs
           ELSE /\ Len(reqs) < MaxInFlight
                /\ TotalLog(challenges) + Len(reqs) < MaxLog
                /\ reqs' = Append(reqs, InFlight(op, p))
                /\ last' = last
        /\ UNCHANGED <<users, challenges, clock>>

\* the save of the i-th request in flight arrives at the store
Save(i) ==
    /\ i \in 1..Len(reqs)
    /\ \E c \in {After(challenges, users, reqs[i].plan)} :
           challenges' = c.challenges /\ users' = c.users
    /\ last' = Response(reqs[i].op, reqs[i].plan)
    /\ reqs' = Remove(reqs, i)
    /\ UNCHANGED clock

LoadCreate(userId, challengedId, fightDetails, message) ==
    Load("create",
         createChallenge(challenges, users, userId, challengedId,
                         sanitizeObject(fightDetails), sanitizeInput(message)))

LoadAccept(userId, cid, message) ==
    Load("accept",
         acceptChallenge(findById(challenges, cid), userId, cid,
                         sanitizeInput(message)))

LoadDecline(userId, cid, message) ==
    Load("decline",
         declineChallenge(findById(challenges, cid), userId, cid,
                          sanitizeInput(message)))

LoadCancel(userId, cid, reason) ==
    Load("cancel",
         cancelChallenge(findById(challenges, cid), userId, cid,
                         sanitizeInput(reason)))

NextConc ==
    \/ \E u \in UserIds, t \in IdTexts, d \in CreateDetails, m \in RawTexts :
          LoadCreate(u, t, d, m)
    \/ \E u \in UserIds, c \in ChallengeIds, m \in RawTexts : LoadAccept(u, c, m)
    \/ \E u \in UserIds, c \in ChallengeIds, m \in RawTexts : LoadDecline(u, c, m)
    \/ \E u \in UserIds, c \in ChallengeIds, m \in RawTexts : LoadCancel(u, c, m)
    \/ \E i \in 1..MaxInFlight : Save(i)

SpecConc == InitConc /\ [][NextConc]_vars

(***************************************************************************)
(* SpecList: the two listings over the stores a short workflow builds.     *)
(***************************************************************************)
Listed(op, ids) ==
    /\ last' = [op |-> op, http |-> 200, code |-> "OK", error |-> <<>>, data |-> ids]
    /\ UNCHANGED <<users, challenges, reqs, clock>>

GetMyChallenges(userId, status, role, page, limit, sort) ==
    Listed("list",
           getMyChallenges(challenges, userId, status, role, page, limit, sort).challenges)

GetPendingChallenges(userId) ==
    Listed("pending", getPendingChallengesForUser(challenges, userId))

\* the query parameters the listings are asked with
StatusFilters == {<<>>, <<"pending">>, <<"declined">>}
RoleFilters == {<<>>, <<"challenger">>, <<"challenged">>}
Pages == {1, 2}
Limits == {1, 2}
Sorts == {"createdAt", "-createdAt"}
FighterTexts == {t \in IdTexts : t.oid \in {"u1", "u2"} /\ ~t.upper}

NextList ==
    \/ \E u \in {"u1", "u2"}, t \in FighterTexts :
          CreateChallenge(u, t, NoDetails, <<"a">>)
    \/ \E u \in {"u1", "u2"}, c \in StoredIds : AcceptChallenge(u, c, <<>>)
    \/ \E u \in {"u1", "u2"}, c \in StoredIds : DeclineChallenge(u, c, <<>>)
    \/ \E u \in {"u1", "u2"}, c \in StoredIds : CancelChallenge(u, c, <<>>)
    \/ \E u \in UserIds, st \in StatusFilters, r \in RoleFilters,
          pg \in Pages, lim \in Limits, so \in Sorts :
          GetMyChallenges(u, st, r, pg, lim, so)
    \/ \E u \in UserIds : GetPendingChallenges(u)

SpecList == InitConc /\ [][NextList]_vars

(***************************************************************************)
(* SpecChat: two fighters negotiate.  Challenges are created, accepted and *)
(* declined; anyone asks to update the fight details, field by field, or   *)
(* to add a message.                                                       *)
(***************************************************************************)
NextChat ==
    \/ \E u \in {"u1", "u2"}, t \in FighterTexts :
          CreateChallenge(u, t, NoDetails, <<"a">>)
    \/ \E u \in {"u1", "u2"}, c \in StoredIds : AcceptChallenge(u, c, <<>>)
    \/ \E u \in {"u1", "u2"}, c \in StoredIds : DeclineChallenge(u, c, <<>>)
    \/ \E u \in UserIds, c \in ChallengeIds, d \in UpdateDetails :
          UpdateChallengeDetails(u, c, d)
    \/ \E u \in UserIds, c \in ChallengeIds, m \in RawTexts :
          AddMessageToChallenge(u, c, m)

SpecChat == InitConc /\ [][NextChat]_vars

(***************************************************************************)
(* SpecWorkflow: the workflow of the challenges of two fighters, with a    *)
(* third account, a fan, that takes no part in any of them.                *)
(***************************************************************************)
\* three accounts have signed up, and two of them stepped into the cage
InitWorkflow ==
    /\ users = [u \in UserIds |->
                   CASE u = "u1" -> Fighter("n1", "e1")
                     [] u = "u2" -> Fighter("n2", "e2")
                     [] OTHER -> NewUser("n3", "e3")]
    /\ challenges = <<>>
    /\ last = NoResponse
    /\ reqs = <<>>
    /\ clock = 0

NextWorkflow ==
    \/ \E u \in UserIds, t \in IdTexts, m \in RawTexts :
          CreateChallenge(u, t, NoDetails, m)
    \/ \E u \in UserIds, c \in ChallengeIds, m \in RawTexts : AcceptChallenge(u, c, m)
    \/ \E u \in UserIds, c \in ChallengeIds, m \in RawTexts : DeclineChallenge(u, c, m)
    \/ \E u \in UserIds, c \in ChallengeIds, m \in RawTexts : CancelChallenge(u, c, m)
    \/ \E u \in UserIds, c \in ChallengeIds : UpdateChallengeDetails(u, c, LocationOnly)
    \/ \E u \in UserIds, c \in ChallengeIds, m \in RawTexts :
          AddMessageToChallenge(u, c, m)

SpecWorkflow == InitWorkflow /\ [][NextWorkflow]_vars

(***************************************************************************)
(* SpecDated: two fighters negotiate a date while time passes.             *)
(***************************************************************************)
\* a day passes
Tick ==
    /\ clock < MaxClock
    /\ clock' = clock + 1
    /\ UNCHANGED <<users, challenges, last, reqs>>

\* fight details that propose day 1, and nothing else
Dated == [NoDetails EXCEPT !.proposedDate = <<1>>]

NextDated ==
    \/ \E u \in {"u1", "u2"}, t \in FighterTexts, d \in {NoDetails, Dated} :
          CreateChallenge(u, t, d, <<"a">>)
    \/ \E u \in {"u1", "u2"}, c \in StoredIds : AcceptChallenge(u, c, <<>>)
    \/ \E u \in {"u1", "u2"}, c \in StoredIds : DeclineChallenge(u, c, <<>>)
    \/ \E u \in {"u1", "u2"}, c \in StoredIds : CancelChallenge(u, c, <<>>)
    \/ \E u \in {"u1", "u2"}, c \in StoredIds, d \in {LocationOnly, Dated} :
          UpdateChallengeDetails(u, c, d)
    \/ \E u \in {"u1", "u2"}, c \in StoredIds : AddMessageToChallenge(u, c, <<"a">>)
    \/ Tick

SpecDated == InitConc /\ [][NextDated]_vars

(***************************************************************************)
(* SpecFrame: the two fighters' requests on their challenges, detail       *)
(* updates included, with the load and the save of a request apart.        *)
(***************************************************************************)
LoadUpdateChallengeDetails(userId, cid, fightDetails) ==
    Load("updateDetails",
         updateChallengeDetails(users, findById(challenges, cid), userId, cid,
                                sanitizeObject(fightDetails)))

NextFrame ==
    \/ \E u \in {"u1", "u2"}, t \in FighterTexts : LoadCreate(u, t, NoDetails, <<"a">>)
    \/ \E u \in {"u1", "u2"}, c \in StoredIds : LoadAccept(u, c, <<>>)
    \/ \E u \in {"u1", "u2"}, c \in StoredIds : LoadDecline(u, c, <<>>)
    \/ \E u \in {"u1", "u2"}, c \in StoredIds : LoadCancel(u, c, <<>>)
    \/ \E u \in {"u1", "u2"}, c \in StoredIds, d \in UpdateDetails :
          LoadUpdateChallengeDetails(u, c, d)
    \/ \E i \in 1..MaxInFlight : Save(i)

SpecFrame == InitConc /\ [][NextFrame]_vars

(***************************************************************************)
(* SpecAccounts: the account operations.  The profile routes run           *)
(* validateInput(schema) before the handler; the handler writes the        *)
(* validated body with findByIdAndUpdate.                                  *)
(***************************************************************************)
\* the top-level keys of schemas.updateProfile and schemas.updateFighterProfile
updateProfile == {"username", "email", "socialLinks"}
updateFighterProfile ==
    {"weight", "height", "age", "styles", "customStyle", "location",
     "profilePicture", "socialLinks"}

\* the body goes to the handler as it came
stripUnknown_Keep(schema, body) == body

\* schema.validate(..., { stripUnknown: true }): the value keeps the keys of
\* the schema only
stripUnknown(schema, body) == [k \in DOMAIN body \cap schema |-> body[k]]

\* weight: Joi.number().min(100).max(400)
ValidWeight(body) ==
    "weight" \in DOMAIN body => body.weight >= 100 /\ body.weight <= 400

\* findByIdAndUpdate(userId, updates): $set of every key of updates
findByIdAndUpdate(usrs, userId, updates) ==
    [usrs EXCEPT ![userId] =
        [k \in DOMAIN @ \cup DOMAIN updates |->
            IF k \in DOMAIN updates THEN updates[k] ELSE @[k]]]

\* the accounts other than userId that hold the username or email of updates
Taken(usrs, userId, updates) ==
    {u \in DOMAIN usrs \ {userId} :
        \/ "username" \in DOMAIN updates /\ usrs[u].username = updates.username
        \/ "email" \in DOMAIN updates /\ usrs[u].email = updates.email}

\* findByIdAndUpdate as the store settles it: null when no account has the
\* id, the duplicate key error of the unique indexes, or the updated account
UpdateAccount(usrs, userId, updates) ==
    IF userId \notin DOMAIN usrs
    THEN AccountPlan(404, "USER_NOT_FOUND", <<"User not found">>, usrs)
    ELSE WriteAccount(usrs, userId, findByIdAndUpdate(usrs, userId, updates)[userId], 200)

\* the check of updateMyProfile before its write
DuplicateField(usrs, userId, updates) ==
    LET taken == Taken(usrs, userId, updates)
        existingUser == CHOOSE u \in taken : TRUE
        field == IF "username" \in DOMAIN updates
                    /\ usrs[existingUser].username = updates.username
                 THEN "username" ELSE "email"
    IN  AccountPlan(409, "DUPLICATE_FIELD", <<"This", field, "is already taken">>, usrs)

updateMyProfile(usrs, userId, updates) ==
    IF Taken(usrs, userId, updates) # {}
    THEN DuplicateField(usrs, userId, updates)
    ELSE UpdateAccount(usrs, userId, updates)

UpdateMyProfile(userId, body) ==
    /\ \E p \in Answers(updateMyProfile(users, userId, stripUnknown(updateProfile, body))) :
           /\ last' = AccountResponse("updateProfile", p.http, p.code, p.error)
           /\ users' = p.users
    /\ UNCHANGED <<challenges, reqs, clock>>

UpdateFighterProfile(userId, body) ==
    LET updates == stripUnknown(updateFighterProfile, body)
    IN  /\ IF ~ValidWeight(body)
           THEN /\ last' = AccountResponse("updateFighterProfile", 400,
                                           "VALIDATION_ERROR", <<"Validation failed">>)
                /\ UNCHANGED users
           ELSE IF userId \notin DOMAIN users
           THEN /\ last' = AccountResponse("updateFighterProfile", 404,
                                           "USER_NOT_FOUND", <<"User not found">>)
                /\ UNCHANGED users
           ELSE IF ~users[userId].isFighter
           THEN /\ last' = AccountResponse("updateFighterProfile", 403, "NOT_FIGHTER",
                                           <<"Only fighters can update fighter details">>)
                /\ UNCHANGED users
           ELSE /\ last' = AccountResponse("updateFighterProfile", 200, "OK", <<>>)
                /\ users' = findByIdAndUpdate(users, userId, updates)
        /\ UNCHANGED <<challenges, reqs, clock>>

\* the bodies of PATCH /me: a new username, a new email, and bodies that
\* name role and isFighter besides
ProfileBodies ==
    {[username |-> "n3"],
     [email |-> "e1"],
     [username |-> "n4", role |-> "fighter", isFighter |-> TRUE],
     [role |-> "fan", isFighter |-> FALSE]}

\* the bodies of PATCH /me/fighter: a weight, a weight out of range, and
\* bodies that name role and isFighter besides
FighterBodies ==
    {[weight |-> 150],
     [weight |-> 50],
     [weight |-> 170, role |-> "fan", isFighter |-> FALSE],
     [isFighter |-> FALSE]}

NextAccounts ==
    \/ \E c \in Credentials : Signup(c[1], c[2])
    \/ \E u \in Promotable : StepIntoTheCage(u)
    \/ \E u \in UserIds, b \in ProfileBodies : UpdateMyProfile(u, b)
    \/ \E u \in UserIds, b \in FighterBodies : UpdateFighterProfile(u, b)

SpecAccounts == Init /\ [][NextAccounts]_vars

(***************************************************************************)
(* SpecRegister: Signup and UpdateProfile requests interleave.  Each       *)
(* handler awaits the store twice: its findOne for an account that holds   *)
(* the username or email, and its write.  Between the two, other requests  *)
(* check and write.                                                        *)
(***************************************************************************)
Pending(op, userId, updates) == [op |-> op, userId |-> userId, updates |-> updates]

Signups(rs) == {i \in 1..Len(rs) : rs[i].op = "signup"}

\* signup up to its User.create
LoadSignup(username, email) ==
    /\ IF ExistingUser(users, username, email)
       THEN /\ \E p \in {signup(users, username, email)} :
                   last' = AccountResponse("signup", p.http, p.code, p.error)
            /\ reqs' = reqs
       ELSE /\ Len(reqs) < MaxInFlight
            /\ Cardinality(DOMAIN users) + Cardinality(Signups(reqs)) < Cardinality(UserIds)
            /\ reqs' = Append(reqs, Pending("signup", "",
                                            [username |-> username, email |-> email]))
            /\ last' = last
    /\ UNCHANGED <<users, challenges, clock>>

\* updateMyProfile up to its findByIdAndUpdate
LoadUpdateMyProfile(userId, body) ==
    LET updates == stripUnknown(updateProfile, body)
    IN  /\ IF Taken(users, userId, updates) # {}
           THEN /\ \E p \in {DuplicateField(users, userId, updates)} :
                       last' = AccountResponse("updateProfile", p.http, p.code, p.error)
                /\ reqs' = reqs
           ELSE /\ Len(reqs) < MaxInFlight
                /\ reqs' = Append(reqs, Pending("updateProfile", userId, updates))
                /\ last' = last
        /\ UNCHANGED <<users, challenges, clock>>

\* the write of the i-th request in flight arrives at the store
SaveAccount(i) ==
    /\ i \in 1..Len(reqs)
    /\ LET r == reqs[i]
           written == IF r.op = "signup"
                      THEN WriteAccount(users, FreshUserId(users, r.updates.username),
                                        NewUser(r.updates.username, r.updates.email), 201)
                      ELSE UpdateAccount(users, r.userId, r.updates)
       IN  \E p \in Answers(written) :
               /\ last' = AccountResponse(r.op, p.http, p.code, p.error)
               /\ users' = p.users
    /\ reqs' = Remove(reqs, i)
    /\ UNCHANGED <<challenges, clock>>

\* credentials that collide in the username, in the email, or in neither
RegisterCredentials == {<<"n1", "e1">>, <<"n2", "e2">>, <<"n1", "e2">>}
\* the bodies of PATCH /me: a username, an email, both
RegisterBodies ==
    {[username |-> "n1"], [email |-> "e2"], [username |-> "n2", email |-> "e1"]}

NextRegister ==
    \/ \E c \in RegisterCredentials : LoadSignup(c[1], c[2])
    \/ \E u \in {"u1", "u2"}, b \in RegisterBodies : LoadUpdateMyProfile(u, b)
    \/ \E i \in 1..MaxInFlight : SaveAccount(i)

SpecRegister == Init /\ [][NextRegister]_vars

(***************************************************************************)
(* SpecMixed: account requests and challenge requests interleave.  The     *)
(* account requests of this specification write once; a challenge request  *)
(* loads the accounts and the challenge first and saves later.             *)
(***************************************************************************)
\* bodies of the profile updates that name role and isFighter
Demotions == {[weight |-> 170, role |-> "fan", isFighter |-> FALSE]}

NextMixed ==
    \/ \E c \in Credentials : Signup(c[1], c[2])
    \/ \E u \in Promotable : StepIntoTheCage(u)
    \/ \E u \in UserIds, b \in Demotions : UpdateMyProfile(u, b)
    \/ \E u \in UserIds, b \in Demotions : UpdateFighterProfile(u, b)
    \/ \E u \in UserIds, t \in {t \in IdTexts : ~t.upper} : LoadCreate(u, t, NoDetails, <<"a">>)
    \/ \E u \in UserIds, c \in StoredIds : LoadDecline(u, c, <<>>)
    \/ \E i \in 1..MaxInFlight : Save(i)

SpecMixed == Init /\ [][NextMixed]_vars

(***************************************************************************)
(* Properties.  The stores a request leaves behind are After(...) of its   *)
(* handler's plan, as in Serve.                                            *)
(***************************************************************************)
Stores == [challenges |-> challenges, users |-> users]

SamePair(a, b) ==
    {a.challenger, a.challenged} = {b.challenger, b.challenged}

\* the plan leaves both stores as they are
Untouched(plan) == After(challenges, users, plan) = Stores

StatusEdges ==
    {<<"pending", "accepted", "accept">>, <<"pending", "declined", "decline">>,
     <<"pending", "cancelled", "cancel">>, <<"accepted", "cancelled", "cancel">>,
     <<"accepted", "completed", "complete">>}

\* C1: with one request at a time, a challenge enters the store with status
\* pending (by Create), no challenge leaves the store, and a stored status
\* changes only along pending->accepted (Accept), pending->declined (Decline),
\* pending->cancelled and accepted->cancelled (Cancel) and
\* accepted->completed (Complete).
C1_StatusEdges ==
    [][ /\ Len(challenges') >= Len(challenges)
        /\ \A c \in 1..Len(challenges') :
              IF c > Len(challenges)
              THEN challenges'[c].status = "pending" /\ last'.op = "create"
              ELSE \/ challenges'[c].status = challenges[c].status
                   \/ <<challenges[c].status, challenges'[c].status, last'.op>>
                          \in StatusEdges ]_vars

\* C1 witness: a challenge that was accepted and then cancelled
C1_Witness ==
    \E c \in StoredIds :
        /\ challenges[c].status = "cancelled"
        /\ challenges[c].responseDetails.respondedAt # <<>>
        /\ last.op = "cancel" /\ last.code = "OK"

\* C2: with one request at a time, no two stored challenges between the same
\* unordered pair of accounts are both pending or accepted; and a Create
\* between two accounts that have an active challenge, in either direction,
\* fails with 409 CHALLENGE_EXISTS and stores nothing.
C2_OneActivePerPair ==
    /\ \A i, j \in StoredIds :
          (i # j /\ isActive(challenges[i]) /\ isActive(challenges[j]))
              => ~SamePair(challenges[i], challenges[j])
    /\ \A a \in UserIds, t \in IdTexts, d \in CreateDetails, m \in RawTexts :
          existsBetweenUsers(challenges, a, CastObjectId(t)) =>
              LET plan == createChallenge(challenges, users, a, t, d, sanitizeInput(m))
              IN  plan.code = "CHALLENGE_EXISTS" /\ plan.http = 409 /\ Untouched(plan)

\* C2 witness: a Create was refused because of the active challenge stored
C2_Witness ==
    /\ last.op = "create" /\ last.code = "CHALLENGE_EXISTS"
    /\ \E c \in StoredIds : isActive(challenges[c])

\* the error text names the status
Names(error, status) == Contains(error, <<status>>)

\* C3 (as the code has it): on a stored challenge whose status does not admit
\* the operation, Accept/Decline by the challenged account and Cancel by the
\* challenger fail with 400 CHALLENGE_ACTION_ERROR and a message that names
\* the current status; UpdateDetails and AddMessage by a participant fail
\* with 400 INVALID_STATUS and a fixed message that does not name the status.
\* All of them leave the stores unchanged.
C3_WrongStatus ==
    \A c \in StoredIds, m \in RawTexts, d \in UpdateDetails :
        LET doc == challenges[c]
            loaded == findById(challenges, c)
            text == sanitizeInput(m)
            ActionError(plan) ==
                /\ plan.code = "CHALLENGE_ACTION_ERROR" /\ plan.http = 400
                /\ Names(plan.error, doc.status)
                /\ Untouched(plan)
            InvalidStatus(plan) ==
                /\ plan.code = "INVALID_STATUS" /\ plan.http = 400
                /\ ~Names(plan.error, doc.status)
                /\ Untouched(plan)
        IN  /\ doc.status # "pending" =>
                /\ ActionError(acceptChallenge(loaded, doc.challenged, c, text))
                /\ ActionError(declineChallenge(loaded, doc.challenged, c, text))
            /\ ~isActive(doc) =>
                /\ ActionError(cancelChallenge(loaded, doc.challenger, c, text))
                /\ \A u \in {doc.challenger, doc.challenged} :
                      /\ InvalidStatus(updateChallengeDetails(users, loaded, u, c, d))
                      /\ InvalidStatus(addMessageToChallenge(loaded, u, c, text))

\* C3 witness: an Accept was refused on a challenge that is not pending
C3_Witness ==
    /\ last.op = "accept" /\ last.code = "CHALLENGE_ACTION_ERROR"
    /\ \E c \in StoredIds : challenges[c].status # "pending"

\* C3 as stated: each of the five operations fails with INVALID_STATUS and a
\* message naming the current status.
C3_Original ==
    \A c \in StoredIds, m \in RawTexts, d \in UpdateDetails :
        LET doc == challenges[c]
            loaded == findById(challenges, c)
            text == sanitizeInput(m)
            InvalidStatus(plan) ==
                /\ plan.code = "INVALID_STATUS"
                /\ Names(plan.error, doc.status)
                /\ Untouched(plan)
        IN  /\ doc.status # "pending" =>
                /\ InvalidStatus(acceptChallenge(loaded, doc.challenged, c, text))
                /\ InvalidStatus(declineChallenge(loaded, doc.challenged, c, text))
            /\ ~isActive(doc) =>
                /\ InvalidStatus(cancelChallenge(loaded, doc.challenger, c, text))
                /\ \A u \in {doc.challenger, doc.challenged} :
                      /\ InvalidStatus(updateChallengeDetails(users, loaded, u, c, d))
                      /\ InvalidStatus(addMessageToChallenge(loaded, u, c, text))

isFighterAccount(u) == u \in DOMAIN users /\ users[u].isFighter

\* C4 (as the code has it): a Create whose challenged id is the caller's own
\* id never succeeds and stores nothing.  It fails with 403 NOT_FIGHTER when
\* the caller's account is missing or a fan; with 400 SELF_CHALLENGE when the
\* caller is a fighter and the two id texts are identical; and with a 500
\* save error when the caller is a fighter and the id text differs from the
\* caller's in letter case only.
C4_SelfChallenge ==
    \A a \in UserIds, up \in BOOLEAN, d \in CreateDetails, m \in RawTexts :
        LET plan == createChallenge(challenges, users, a, [oid |-> a, upper |-> up],
                                    d, sanitizeInput(m))
        IN  /\ plan.code # "OK" /\ Untouched(plan)
            /\ ~isFighterAccount(a) => plan.code = "NOT_FIGHTER" /\ plan.http = 403
            /\ (isFighterAccount(a) /\ ~up) =>
                  plan.code = "SELF_CHALLENGE" /\ plan.http = 400
            /\ (isFighterAccount(a) /\ up) =>
                  plan.code # "SELF_CHALLENGE" /\ plan.http = 500

\* C4 witness: a fighter's Create against their own id was refused
C4_Witness ==
    /\ last.op = "create" /\ last.code = "SELF_CHALLENGE"
    /\ \E u \in DOMAIN users : users[u].isFighter

\* C4 as stated: the Create fails with SELF_CHALLENGE whatever the state of
\* the account.
C4_Original ==
    \A a \in UserIds, d \in CreateDetails, m \in RawTexts :
        LET plan == createChallenge(challenges, users, a, [oid |-> a, upper |-> FALSE],
                                    d, sanitizeInput(m))
        IN  plan.code = "SELF_CHALLENGE" /\ Untouched(plan)

\* C5: on a stored challenge, Accept and Decline by any caller other than
\* the challenged account, and Cancel by any caller other than the
\* challenger, fail with 403 NOT_AUTHORIZED and leave the stores unchanged,
\* whatever the status of the challenge.
C5_ActorOnly ==
    \A c \in StoredIds, u \in UserIds, m \in RawTexts :
        LET doc == challenges[c]
            loaded == findById(challenges, c)
            text == sanitizeInput(m)
            Denied(plan) ==
                plan.code = "NOT_AUTHORIZED" /\ plan.http = 403 /\ Untouched(plan)
        IN  /\ u # doc.challenged =>
                /\ Denied(acceptChallenge(loaded, u, c, text))
                /\ Denied(declineChallenge(loaded, u, c, text))
            /\ u # doc.challenger => Denied(cancelChallenge(loaded, u, c, text))

\* C5 witness: an Accept on a stored pending challenge was refused for its caller
C5_Witness ==
    /\ last.op = "accept" /\ last.code = "NOT_AUTHORIZED"
    /\ \E c \in StoredIds : challenges[c].status = "pending"

\* the stored challenge c after an Accept/Decline plan: status and response
\* time set, and the log is the previous log plus one system message by the
\* challenged account whose text contains the given text
Responded(plan, c, status, text) ==
    LET old == challenges[c]
        new == After(challenges, users, plan).challenges[c]
    IN  /\ new.status = status
        /\ new.responseDetails.respondedAt # <<>>
        /\ Len(new.messages) = Len(old.messages) + 1
        /\ SubSeq(new.messages, 1, Len(old.messages)) = old.messages
        /\ new.messages[Len(new.messages)].isSystemMessage
        /\ new.messages[Len(new.messages)].sender = old.challenged
        /\ Contains(new.messages[Len(new.messages)].message, text)

C7_RacingCreates ==
    \A i \in 1..Len(reqs) :
        reqs[i].op = "create" =>
            LET doc == reqs[i].plan.write[1].doc
                after == After(challenges, users, reqs[i].plan).challenges
            IN  /\ reqs[i].plan.code = "OK" /\ reqs[i].plan.http = 201
                /\ after = Append(challenges, doc)
                /\ doc.status = "pending"

\* C7 witness: two active challenges between the same pair are stored
C7_Witness ==
    \E i, j \in StoredIds :
        /\ i # j
        /\ isActive(challenges[i]) /\ isActive(challenges[j])
        /\ SamePair(challenges[i], challenges[j])

\* the entries a request in flight appends to the log
Pushed(r) == DeltaOf(r.plan.write[1].loaded, r.plan.write[1].doc).push

\* C8: when two responses (Accept or Decline) to the same challenge are in
\* flight, both loaded it pending, both report success, and once the one and
\* then the other have saved, the stored status and response details are the
\* later writer's and the log has gained both system messages.
C8_RacingResponses ==
    \A i, j \in 1..Len(reqs) :
        (/\ i # j
         /\ reqs[i].op \in {"accept", "decline"}
         /\ reqs[j].op \in {"accept", "decline"}
         /\ reqs[i].plan.write[1].cid = reqs[j].plan.write[1].cid) =>
            LET c == reqs[i].plan.write[1].cid
                first == After(challenges, users, reqs[i].plan)
                second == After(first.challenges, first.users, reqs[j].plan)
                stored == second.challenges[c]
            IN  /\ reqs[i].plan.write[1].loaded.status = "pending"
                /\ reqs[j].plan.write[1].loaded.status = "pending"
                /\ reqs[i].plan.code = "OK" /\ reqs[j].plan.code = "OK"
                /\ stored.status = reqs[j].plan.write[1].doc.status
                /\ stored.responseDetails = reqs[j].plan.write[1].doc.responseDetails
                /\ stored.messages =
                       challenges[c].messages \o Pushed(reqs[i]) \o Pushed(reqs[j])
                /\ Len(Pushed(reqs[i])) = 1 /\ Len(Pushed(reqs[j])) = 1

IsResponse(msg) ==
    /\ msg.isSystemMessage
    /\ \/ IsPrefix(<<"Challenge accepted!">>, msg.message)
       \/ IsPrefix(<<"Challenge declined.">>, msg.message)

\* C8 witness: a challenge that was accepted and then declined: its log
\* holds two responses and its status is the later writer's
C8_Witness ==
    /\ reqs = <<>>
    /\ last.op = "decline" /\ last.code = "OK"
    /\ \E c \in StoredIds :
          /\ challenges[c].status = "declined"
          /\ Cardinality({k \in 1..Len(challenges[c].messages) :
                             IsResponse(challenges[c].messages[k])}) = 2
          /\ \E k \in 1..Len(challenges[c].messages) :
                IsPrefix(<<"Challenge accepted!">>, challenges[c].messages[k].message)

\* C9: no stored challenge has the same account as challenger and challenged.
C9_NoSelfChallenge ==
    \A c \in StoredIds : challenges[c].challenger # challenges[c].challenged

\* C9 witness: challenges are stored, and a self-challenge that passed the
\* controller's comparison of the id texts was stopped by the pre-save hook
C9_Witness ==
    /\ challenges # <<>>
    /\ last.op = "create"
    /\ last.error = <<"A fighter cannot challenge themselves">>

WorkflowOps ==
    {"create", "accept", "decline", "cancel", "updateDetails", "addMessage", "fetch"}

Created(plan, a, b, text) ==
    LET after == After(challenges, users, plan).challenges
        new == after[Len(after)]
    IN  /\ Len(after) = Len(challenges) + 1
        /\ SubSeq(after, 1, Len(challenges)) = challenges
        /\ new.challenger = a /\ new.challenged = b
        /\ new.status = "pending"
        /\ new.messages =
               <<[sender |-> a, message |-> text, isSystemMessage |-> FALSE]>>

C12_FightersOnly ==
    \A a \in UserIds, t \in IdTexts, d \in CreateDetails, m \in RawTexts :
        LET plan == createChallenge(challenges, users, a, t, d, sanitizeInput(m))
            b == CastObjectId(t)
        IN  /\ ~isFighterAccount(a) =>
                plan.code = "NOT_FIGHTER" /\ plan.http = 403 /\ Untouched(plan)
            /\ (isFighterAccount(a) /\ b \in DOMAIN users /\ ~users[b].isFighter) =>
                plan.code = "TARGET_NOT_FIGHTER" /\ plan.http = 400 /\ Untouched(plan)
            /\ (isFighterAccount(a) /\ b \notin DOMAIN users) =>
                plan.code = "FIGHTER_NOT_FOUND" /\ plan.http = 404 /\ Untouched(plan)
            /\ plan.code = "OK" => isFighterAccount(a) /\ isFighterAccount(b)

\* C12 witness: a fighter's Create against a fan account was refused
C12_Witness ==
    /\ last.op = "create" /\ last.code = "TARGET_NOT_FIGHTER"
    /\ \E a, b \in DOMAIN users : users[a].isFighter /\ ~users[b].isFighter

DetailFields == DOMAIN NoDetails

\* the fight details of challenge c after an UpdateDetails plan: a field
\* present in the input holds the given value, any other field its old value
Merged(plan, c, given) ==
    LET old == challenges[c].fightDetails
        new == After(challenges, users, plan).challenges[c].fightDetails
    IN  \A f \in DetailFields :
            new[f] = IF given[f] # <<>> THEN given[f] ELSE old[f]

Chatted(plan, c, sender, isSystemMessage) ==
    LET old == challenges[c]
        after == After(challenges, users, plan).challenges
        new == after[c]
    IN  /\ Len(after) = Len(challenges)
        /\ \A k \in StoredIds : k # c => after[k] = challenges[k]
        /\ new.status = old.status
        /\ new.challenger = old.challenger /\ new.challenged = old.challenged
        /\ new.responseDetails = old.responseDetails
        /\ Len(new.messages) = Len(old.messages) + 1
        /\ SubSeq(new.messages, 1, Len(old.messages)) = old.messages
        /\ new.messages[Len(new.messages)].sender = sender
        /\ new.messages[Len(new.messages)].isSystemMessage = isSystemMessage

\* C14: an UpdateDetails or AddMessage that succeeds was made by the
\* challenger or the challenged of a stored challenge whose status is
\* pending or accepted; it leaves status, participants and responseDetails
\* as they were and appends exactly one log entry: AddMessage a human
\* message from the caller, with the fight details unchanged, UpdateDetails
\* a system message.
C14_ChatterFrame ==
    \A u \in UserIds, c \in ChallengeIds, m \in RawTexts, d \in UpdateDetails :
        LET loaded == findById(challenges, c)
            upd == updateChallengeDetails(users, loaded, u, c, sanitizeObject(d))
            add == addMessageToChallenge(loaded, u, c, sanitizeInput(m))
            Allowed == /\ c \in StoredIds
                       /\ u \in {challenges[c].challenger, challenges[c].challenged}
                       /\ isActive(challenges[c])
        IN  /\ upd.code = "OK" => Allowed /\ Chatted(upd, c, u, TRUE)
            /\ add.code = "OK" =>
                  /\ Allowed /\ Chatted(add, c, u, FALSE)
                  /\ After(challenges, users, add).challenges[c].fightDetails
                         = challenges[c].fightDetails

\* C14 witness: a message was added to an accepted challenge, which is
\* still accepted and whose log ends with that human message
C14_Witness ==
    /\ last.op = "addMessage" /\ last.code = "OK"
    /\ \E c \in StoredIds :
          /\ challenges[c].status = "accepted"
          /\ ~challenges[c].messages[Len(challenges[c].messages)].isSystemMessage

\* challenge c after a Cancel plan: cancelled, and the log is the previous
\* log plus one system message by the challenger whose text contains the
\* given text
Cancelled(plan, c, text) ==
    LET old == challenges[c]
        new == After(challenges, users, plan).challenges[c]
    IN  /\ new.status = "cancelled"
        /\ Len(new.messages) = Len(old.messages) + 1
        /\ SubSeq(new.messages, 1, Len(old.messages)) = old.messages
        /\ new.messages[Len(new.messages)].isSystemMessage
        /\ new.messages[Len(new.messages)].sender = old.challenger
        /\ IsPrefix(<<"Challenge cancelled.">>, new.messages[Len(new.messages)].message)
        /\ Contains(new.messages[Len(new.messages)].message, text)

C16_AppendOnlyLog ==
    [][ \A c \in 1..Len(challenges) :
           /\ c <= Len(challenges')
           /\ IsPrefix(challenges[c].messages, challenges'[c].messages) ]_vars

\* C16 witness: a log of three entries, the last appended by the request
\* that completed last
C16_Witness ==
    /\ last.code = "OK"
    /\ last.op \in {"accept", "decline", "cancel", "updateDetails", "addMessage"}
    /\ \E c \in StoredIds : Len(challenges[c].messages) = 3

\* C17: with one request at a time, the challenge-reference list of every
\* account has no duplicates, holds only ids of stored challenges in which
\* the account is challenger or challenged, and holds the id of every stored
\* challenge in which it is one of the two (every stored challenge has been
\* saved at least once, many of them several times).
C17_BackReferences ==
    \A u \in DOMAIN users :
        LET refs == users[u].challenges
        IN  /\ Cardinality(SeqToSet(refs)) = Len(refs)
            /\ \A i \in 1..Len(refs) :
                  /\ refs[i] \in StoredIds
                  /\ u \in {challenges[refs[i]].challenger, challenges[refs[i]].challenged}
            /\ \A c \in StoredIds :
                  u \in {challenges[c].challenger, challenges[c].challenged}
                      => c \in SeqToSet(refs)

\* C17 witness: a challenge saved three times (its log has three entries)
\* is referenced once by each of its two participants
C17_Witness ==
    \E c \in StoredIds :
        /\ Len(challenges[c].messages) = 3
        /\ users[challenges[c].challenger].challenges = <<c>>
        /\ users[challenges[c].challenged].challenges = <<c>>

NoResponseDetails == [respondedAt |-> <<>>, responseMessage |-> <<>>]

HasResponse(doc) == \E k \in 1..Len(doc.messages) : IsResponse(doc.messages[k])

\* C18: with one request at a time, a stored challenge has a respondedAt
\* exactly when its log holds the system message of an Accept or Decline; so
\* a pending challenge has none, and neither has a challenge that was
\* cancelled while pending.  A successful Cancel, UpdateDetails or
\* AddMessage leaves responseDetails as stored.
C18_ResponseMetadata ==
    /\ \A c \in StoredIds :
          /\ (challenges[c].responseDetails.respondedAt # <<>>) <=> HasResponse(challenges[c])
          /\ challenges[c].status = "pending" =>
                challenges[c].responseDetails = NoResponseDetails
          /\ ~HasResponse(challenges[c]) =>
                challenges[c].responseDetails = NoResponseDetails
    /\ \A c \in StoredIds, u \in UserIds, m \in RawTexts, d \in UpdateDetails :
          LET loaded == findById(challenges, c)
              Kept(plan) ==
                  plan.code = "OK" =>
                      After(challenges, users, plan).challenges[c].responseDetails
                          = challenges[c].responseDetails
          IN  /\ Kept(cancelChallenge(loaded, u, c, sanitizeInput(m)))
              /\ Kept(updateChallengeDetails(users, loaded, u, c, sanitizeObject(d)))
              /\ Kept(addMessageToChallenge(loaded, u, c, sanitizeInput(m)))

\* C18 witness: a challenge cancelled while pending, after a message was
\* added to it, has no response details
C18_Witness ==
    /\ last.op = "cancel" /\ last.code = "OK"
    /\ \E c \in StoredIds :
          /\ challenges[c].status = "cancelled"
          /\ Len(challenges[c].messages) = 3
          /\ challenges[c].responseDetails = NoResponseDetails

\* the stored challenges a listing for u with the given filters is about
Involving(u, status, role) ==
    {c \in StoredIds :
        /\ CASE role = <<"challenger">> -> challenges[c].challenger = u
             [] role = <<"challenged">> -> challenges[c].challenged = u
             [] OTHER -> u \in {challenges[c].challenger, challenges[c].challenged}
        /\ status = <<>> \/ challenges[c].status = status[1]}

NoDuplicates(s) == Cardinality(SeqToSet(s)) = Len(s)

\* C19 (as the code has it): ListForUser(u) returns one page of the stored
\* challenges that involve u (as challenger with role=challenger, as
\* challenged with role=challenged, as either without a role filter) and
\* have the status of the status filter, if any: never a challenge outside
\* that set, at most limit of them, all of them when the first page is long
\* enough, and every one of them on some page; the total it reports counts
\* exactly that set.  PendingForUser(u) returns exactly the challenges with
\* challenged = u and status pending.
C19_Listings ==
    /\ \A u \in UserIds, st \in StatusFilters, r \in RoleFilters,
          pg \in Pages, lim \in Limits, so \in Sorts :
          LET res == getMyChallenges(challenges, u, st, r, pg, lim, so)
              all == Involving(u, st, r)
          IN  /\ SeqToSet(res.challenges) \subseteq all
              /\ NoDuplicates(res.challenges)
              /\ Len(res.challenges) <= lim
              /\ res.total = Cardinality(all)
              /\ (pg = 1 /\ lim >= Cardinality(all)) => SeqToSet(res.challenges) = all
              /\ \A c \in all :
                    \E p \in 1..Cardinality(all) :
                        c \in SeqToSet(getMyChallenges(challenges, u, st, r, p, lim, so).challenges)
    /\ \A u \in UserIds :
          LET res == getPendingChallengesForUser(challenges, u)
          IN  /\ NoDuplicates(res)
              /\ SeqToSet(res) = {c \in StoredIds : /\ challenges[c].challenged = u
                                                    /\ challenges[c].status = "pending"}

\* C19 witness: two challenges are stored and the listing that completed
\* last returned one of them
C19_Witness ==
    /\ last.op = "list" /\ Len(last.data) = 1
    /\ Len(challenges) = 2

\* C19 as stated: without filters the listing returns exactly the stored
\* challenges that involve u
C19_Original ==
    \A u \in UserIds, pg \in Pages, lim \in Limits, so \in Sorts :
        SeqToSet(getMyChallenges(challenges, u, <<>>, <<>>, pg, lim, so).challenges)
            = Involving(u, <<>>, <<>>)

\* C20: after any sequence of Signup, BecomeFighter, UpdateProfile and
\* UpdateFighterProfile requests, every account has isFighter = true exactly
\* when its role is "fighter".
C20_FighterIffRole ==
    \A u \in DOMAIN users : users[u].isFighter <=> users[u].role = "fighter"

\* a fighter whose fighter profile was updated by the body that also named
\* role "fan" and isFighter false, beside an account that is still a fan after
\* the profile update whose body also named role "fighter" and isFighter true
C20_Witness ==
    /\ \E u \in DOMAIN users :
           /\ "weight" \in DOMAIN users[u] /\ users[u].weight = 170
           /\ users[u].isFighter /\ users[u].role = "fighter"
    /\ \E u \in DOMAIN users :
           /\ users[u].username = "n4"
           /\ ~users[u].isFighter /\ users[u].role = "fan"

\* the accounts that are fans, and those that are fighters, in both fields
Fans(usrs) == {u \in DOMAIN usrs : usrs[u].role = "fan" /\ ~usrs[u].isFighter}
Fighters(usrs) == {u \in DOMAIN usrs : usrs[u].role = "fighter" /\ usrs[u].isFighter}

\* C21: the promotion is one-way.  In every step of the account operations:
\* an account that appears is a fan with isFighter false; an account that is
\* a fighter stays a fighter; a BecomeFighter that succeeds turns exactly one
\* fan into a fighter, role and isFighter together, and changes no other
\* account; a BecomeFighter refused with 400 ALREADY_FIGHTER was asked by a
\* fighter and changes nothing.
C21_OneWayPromotion ==
    [][/\ DOMAIN users \subseteq DOMAIN users'
       /\ DOMAIN users' \ DOMAIN users \subseteq Fans(users')
       /\ Fighters(users) \subseteq Fighters(users')
       /\ (last'.op = "becomeFighter" /\ last'.code = "OK") =>
              \E u \in Fans(users) :
                  /\ u \in Fighters(users')
                  /\ users' = [users EXCEPT ![u].role = "fighter",
                                            ![u].isFighter = TRUE]
       /\ (last'.op = "becomeFighter" /\ last'.code = "ALREADY_FIGHTER") =>
              /\ last'.http = 400
              /\ Fighters(users) # {}
              /\ users' = users]_vars

\* C21 witness: a fighter asked again to become a fighter and was refused,
\* after a profile update gave that account the username "n3"
C21_Witness ==
    /\ last.op = "becomeFighter" /\ last.code = "ALREADY_FIGHTER"
    /\ \E u \in Fighters(users) : users[u].username = "n3"

\* the username and email an account holds, as a body of PATCH /me
OwnValues(u) == [username |-> users[u].username, email |-> users[u].email]

\* C22: however Signup and UpdateProfile requests interleave, no two
\* accounts share a username and no two share an email; a Signup whose
\* username or email an account holds is refused with 409 and stores
\* nothing; an UpdateProfile whose username or email another account holds
\* is refused with 409 and stores nothing; an UpdateProfile with the
\* caller's own username and email succeeds.
C22_UniqueNames ==
    /\ \A u, v \in DOMAIN users :
          u # v => /\ users[u].username # users[v].username
                   /\ users[u].email # users[v].email
    /\ \A c \in RegisterCredentials :
          (\E u \in DOMAIN users :
               users[u].username = c[1] \/ users[u].email = c[2]) =>
              LET p == signup(users, c[1], c[2])
              IN  p.http = 409 /\ p.code = "DUPLICATE_USER" /\ p.users = users
    /\ \A u \in UserIds, b \in RegisterBodies :
          (\E v \in DOMAIN users \ {u} :
               \/ "username" \in DOMAIN b /\ users[v].username = b.username
               \/ "email" \in DOMAIN b /\ users[v].email = b.email) =>
              LET p == updateMyProfile(users, u, stripUnknown(updateProfile, b))
              IN  p.http = 409 /\ p.code = "DUPLICATE_FIELD" /\ p.users = users
    /\ \A u \in DOMAIN users :
          LET p == updateMyProfile(users, u, OwnValues(u))
          IN  p.http = 200 /\ p.code = "OK" /\ p.users = users

\* C22 witness: of two requests that both passed their check, the later
\* write was refused by the unique index; two accounts are stored
C22_Witness ==
    /\ last.code = "DUPLICATE_ERROR"
    /\ Cardinality(DOMAIN users) >= 2

\* the stored challenges that are pending or accepted and whose stored
\* proposed date is not later than the current time
Overdue ==
    {c \in StoredIds :
        /\ isActive(challenges[c])
        /\ challenges[c].fightDetails.proposedDate # <<>>
        /\ challenges[c].fightDetails.proposedDate[1] <= clock}

\* the plans of the requests that supply no date, made by the participant
\* each of them requires, on the stored challenge c
Undated(c) ==
    LET doc == challenges[c]
        loaded == findById(challenges, c)
    IN  {cancelChallenge(loaded, doc.challenger, c, <<>>),
         addMessageToChallenge(loaded, doc.challenger, c, <<"a">>),
         addMessageToChallenge(loaded, doc.challenged, c, <<"a">>),
         updateChallengeDetails(users, loaded, doc.challenger, c, sanitizeObject(LocationOnly)),
         updateChallengeDetails(users, loaded, doc.challenged, c, sanitizeObject(LocationOnly))}
        \cup IF doc.status = "pending"
             THEN {acceptChallenge(loaded, doc.challenged, c, <<>>),
                   declineChallenge(loaded, doc.challenged, c, <<>>)}
             ELSE {}

\* C23 (as the code has it): a Create or an UpdateDetails that supplies a
\* proposed date succeeds only when the date is later than the current time;
\* and every save validates the stored date again, so that on an active
\* challenge whose stored proposed date has passed, Accept, Decline, Cancel,
\* AddMessage and an UpdateDetails that supplies no date all fail and store
\* nothing.
C23_Revalidated ==
    /\ \A u \in {"u1", "u2"}, t \in FighterTexts :
          LET plan == createChallenge(challenges, users, u, t, Dated, <<"a">>)
          IN  plan.code = "OK" => Dated.proposedDate[1] > clock
    /\ \A c \in StoredIds :
          \A u \in {challenges[c].challenger, challenges[c].challenged} :
              LET plan == updateChallengeDetails(users, findById(challenges, c), u, c, Dated)
              IN  plan.code = "OK" => Dated.proposedDate[1] > clock
    /\ \A c \in Overdue :
          \A plan \in Undated(c) : plan.code # "OK" /\ Untouched(plan)

\* C23 witness: an Accept by the challenged account was refused on a pending
\* challenge whose proposed date was set when it was still ahead and has
\* passed since
C23_Witness ==
    /\ last.op = "accept" /\ last.code = "CHALLENGE_ACTION_ERROR"
    /\ last.error = <<"ValidationError">>
    /\ \E c \in Overdue : challenges[c].status = "pending"

\* C23 as stated: on an active challenge whose stored proposed date has
\* passed, a later Accept, Decline, Cancel, AddMessage or UpdateDetails that
\* supplies no date still succeeds.
C23_Original ==
    \A c \in Overdue : \A plan \in Undated(c) : plan.code = "OK"

\* C24 (as the code has it): Complete never succeeds and never changes a
\* stored challenge.  On an accepted challenge the method sets the status
\* and pushes a system message whose sender is null, and save() rejects the
\* document because sender is required; on any other status the method
\* throws.  No stored challenge is ever completed.
C24_CompleteNeverSaves ==
    /\ \A c \in StoredIds : challenges[c].status # "completed"
    /\ \A c \in ChallengeIds, f \in FightIds :
          LET plan == completeChallenge(findById(challenges, c), c, f)
          IN  plan.code # "OK" /\ Untouched(plan)

\* C24 witness: a Complete on an accepted challenge was refused by the
\* validation of save(), and the challenge is still accepted
C24_Witness ==
    /\ last.op = "complete" /\ last.error = <<"ValidationError">>
    /\ \E c \in StoredIds : challenges[c].status = "accepted"

\* C24 as stated: Complete on an accepted challenge stores status completed,
\* sets the fight reference when one is supplied and appends exactly one
\* system message that has no sender; on any other status it fails and
\* leaves the stored challenge as it was.
C24_Original ==
    \A c \in StoredIds, f \in FightIds :
        LET plan == completeChallenge(findById(challenges, c), c, f)
            old == challenges[c]
            new == After(challenges, users, plan).challenges[c]
        IN  IF old.status = "accepted"
            THEN /\ plan.code = "OK"
                 /\ new.status = "completed"
                 /\ new.relatedFight = IF f # <<>> THEN f ELSE old.relatedFight
                 /\ Len(new.messages) = Len(old.messages) + 1
                 /\ SubSeq(new.messages, 1, Len(old.messages)) = old.messages
                 /\ new.messages[Len(new.messages)].isSystemMessage
                 /\ new.messages[Len(new.messages)].sender = NoSender
            ELSE plan.code # "OK" /\ Untouched(plan)

\* C25: when a Cancel and an Accept or Decline of the same challenge are in
\* flight and both loaded it pending, both report success; whichever saves
\* second, the stored status is the second writer's, the first writer's
\* status is overwritten and the log has gained both system messages.  So a
\* challenge stored as cancelled becomes accepted (or declined) when the
\* response saves after the Cancel, and one stored as accepted or declined
\* becomes cancelled when the Cancel saves after the response.
C25_CancelRace ==
    \A i, j \in 1..Len(reqs) :
        (/\ i # j
         /\ {reqs[i].op, reqs[j].op} \in {{"cancel", "accept"}, {"cancel", "decline"}}
         /\ reqs[i].plan.write[1].cid = reqs[j].plan.write[1].cid
         /\ reqs[i].plan.write[1].loaded.status = "pending"
         /\ reqs[j].plan.write[1].loaded.status = "pending") =>
            LET c == reqs[i].plan.write[1].cid
                first == After(challenges, users, reqs[i].plan)
                second == After(first.challenges, first.users, reqs[j].plan)
            IN  /\ reqs[i].plan.code = "OK" /\ reqs[j].plan.code = "OK"
                /\ first.challenges[c].status = reqs[i].plan.write[1].doc.status
                /\ second.challenges[c].status = reqs[j].plan.write[1].doc.status
                /\ first.challenges[c].status # second.challenges[c].status
                /\ second.challenges[c].messages =
                       challenges[c].messages \o Pushed(reqs[i]) \o Pushed(reqs[j])

\* C25 witness: a stored challenge is accepted although its log holds, before
\* the acceptance, the system message of its cancellation
C25_Witness ==
    /\ reqs = <<>>
    /\ last.op = "accept" /\ last.code = "OK"
    /\ \E c \in StoredIds :
          /\ challenges[c].status = "accepted"
          /\ \E k \in 1..Len(challenges[c].messages) :
                /\ challenges[c].messages[k].isSystemMessage
                /\ IsPrefix(<<"Challenge cancelled.">>, challenges[c].messages[k].message)
                /\ k < Len(challenges[c].messages)

\* C26: however account requests and challenge requests interleave, the
\* challenger and the challenged of every stored challenge are stored
\* accounts with isFighter true; and so are those of every challenge a
\* Create in flight is about to store.
C26_ParticipantsAreFighters ==
    /\ \A c \in StoredIds :
          /\ isFighterAccount(challenges[c].challenger)
          /\ isFighterAccount(challenges[c].challenged)
    /\ \A i \in 1..Len(reqs) :
          reqs[i].op = "create" =>
              /\ isFighterAccount(reqs[i].plan.write[1].doc.challenger)
              /\ isFighterAccount(reqs[i].plan.write[1].doc.challenged)

\* C26 witness: a challenge is stored, a fan account exists beside its two
\* fighters, its challenger's fighter profile was updated by the body that
\* names role "fan" and isFighter false, and the challenge was declined
C26_Witness ==
    /\ \E u \in DOMAIN users : ~users[u].isFighter
    /\ \E c \in StoredIds :
          /\ "weight" \in DOMAIN users[challenges[c].challenger]
          /\ challenges[c].status = "declined"

Statuses == {"pending", "accepted", "declined", "cancelled", "completed"}

\* the answers of the five operations to caller u on the document doc
\* stored under c
AnswersTo(doc, c, u, text, d) ==
    [accept |-> acceptChallenge(<<doc>>, u, c, text),
     decline |-> declineChallenge(<<doc>>, u, c, text),
     cancel |-> cancelChallenge(<<doc>>, u, c, text),
     updateDetails |-> updateChallengeDetails(users, <<doc>>, u, c, d),
     addMessage |-> addMessageToChallenge(<<doc>>, u, c, text)]

\* C27: to a caller who is not the participant the operation requires
\* (Accept, Decline: the challenged; Cancel: the challenger; UpdateDetails,
\* AddMessage: either of them), each of the five operations answers 403
\* NOT_AUTHORIZED on every stored challenge and stores nothing; and it gives
\* the very same answer were the challenge in any other status.
C27_ActorBeforeStatus ==
    \A c \in StoredIds, u \in UserIds, m \in RawTexts, d \in UpdateDetails :
        LET doc == challenges[c]
            now == AnswersTo(doc, c, u, sanitizeInput(m), sanitizeObject(d))
            Required(op) ==
                CASE op \in {"accept", "decline"} -> {doc.challenged}
                  [] op = "cancel" -> {doc.challenger}
                  [] OTHER -> {doc.challenger, doc.challenged}
        IN  \A op \in DOMAIN now :
                u \notin Required(op) =>
                    /\ now[op].code = "NOT_AUTHORIZED" /\ now[op].http = 403
                    /\ Untouched(now[op])
                    /\ \A s \in Statuses :
                          AnswersTo([doc EXCEPT !.status = s], c, u,
                                    sanitizeInput(m), sanitizeObject(d))[op] = now[op]

\* C27 witness: an AddMessage by an account that is no participant was
\* refused as not authorized while every stored challenge is declined
C27_Witness ==
    /\ last.op = "addMessage" /\ last.code = "NOT_AUTHORIZED"
    /\ challenges # <<>>
    /\ \A c \in StoredIds : challenges[c].status = "declined"

\* the stored challenges between a and b, in either direction
Between(a, b) ==
    {c \in StoredIds : {challenges[c].challenger, challenges[c].challenged} = {a, b}}

\* a and b have a history together and all of it is terminated
AllTerminated(a, b) ==
    /\ Between(a, b) # {}
    /\ \A c \in Between(a, b) :
          challenges[c].status \in {"declined", "cancelled", "completed"}

\* C28: when two distinct fighters have challenges between them and every
\* one of these is declined, cancelled or completed, a Create by either of
\* them against the other is never refused as CHALLENGE_EXISTS; if the new
\* document passes the schema validation, the Create answers 201 and the
\* store is the old one, unchanged, with one new pending challenge appended.
C28_TerminatedNeverBlocks ==
    \A a \in DOMAIN users, t \in IdTexts, d \in {NoDetails, Dated}, m \in RawTexts :
        LET b == CastObjectId(t)
            doc == NewChallenge(a, b, sanitizeObject(d),
                       <<[sender |-> a, message |-> sanitizeInput(m),
                          isSystemMessage |-> FALSE]>>)
            plan == createChallenge(challenges, users, a, t, sanitizeObject(d),
                                    sanitizeInput(m))
        IN  (/\ b \in DOMAIN users /\ a # b
             /\ users[a].isFighter /\ users[b].isFighter
             /\ AllTerminated(a, b)) =>
                /\ plan.code # "CHALLENGE_EXISTS"
                /\ Validation(doc) =>
                      /\ plan.code = "OK" /\ plan.http = 201
                      /\ doc.status = "pending"
                      /\ After(challenges, users, plan).challenges
                            = Append(challenges, doc)

\* C28 witness: a Create was answered 201 and stored a pending challenge
\* whose participants are those of an earlier, terminated challenge, the
\* other way round
C28_Witness ==
    /\ last.op = "create" /\ last.code = "OK"
    /\ Len(challenges) >= 2
    /\ LET new == challenges[Len(challenges)]
       IN  /\ new.status = "pending"
           /\ \E c \in 1..(Len(challenges) - 1) :
                 /\ challenges[c].challenger = new.challenged
                 /\ challenges[c].challenged = new.challenger
                 /\ challenges[c].status \in {"declined", "cancelled"}
           /\ \A c \in 1..(Len(challenges) - 1) :
                 challenges[c].status \in {"declined", "cancelled"}

\* C29: no step removes a stored challenge or changes its challenger or its
\* challenged, and the step in which the save of an Accept, a Decline or a
\* Cancel arrives leaves the fightDetails of every stored challenge as they
\* were, also when a detail update was saved after that request had loaded
\* the challenge.
C29_ParticipantsAndDetailsKept ==
    [][/\ Len(challenges') >= Len(challenges)
       /\ \A c \in 1..Len(challenges) :
             /\ challenges'[c].challenger = challenges[c].challenger
             /\ challenges'[c].challenged = challenges[c].challenged
             /\ (/\ Len(reqs') < Len(reqs)
                 /\ last'.op \in {"accept", "decline", "cancel"}) =>
                    challenges'[c].fightDetails = challenges[c].fightDetails]_vars

\* C29 witness: an Accept has been saved on a challenge whose location was
\* set by a detail update
C29_Witness ==
    /\ last.op = "accept" /\ last.code = "OK"
    /\ \E c \in StoredIds :
          /\ challenges[c].status = "accepted"
          /\ challenges[c].fightDetails.location # <<>>

\* the log of every challenge in chs: non-empty, opened by the challenger's
\* own (non-system) message, every entry sent by one of the two participants
LogOfParticipants(chs) ==
    \A c \in 1..Len(chs) :
        /\ chs[c].messages # <<>>
        /\ chs[c].messages[1].sender = chs[c].challenger
        /\ ~chs[c].messages[1].isSystemMessage
        /\ \A i \in 1..Len(chs[c].messages) :
              chs[c].messages[i].sender \in {chs[c].challenger, chs[c].challenged}

====
